---- MODULE Spec2Model ----
(***************************************************************************)
(* Voice-channel occupancy analytics (bot.py): the interval aggregation   *)
(* engine.  Sessions are rows (user_id, channel_id, joined_ts, left_ts);  *)
(* the aggregators clamp each row to a window [since, now], split it on   *)
(* local hour / calendar-day boundaries or sweep its start and end events. *)
(* All timestamps are whole epoch seconds.                                 *)
(***************************************************************************)
EXTENDS Integers, Sequences, FiniteSets, TLC

VARIABLES rows, since, nowArg, afk, tzName, clock, res, loop, voice, tasks

vars == <<rows, since, nowArg, afk, tzName, clock, res, loop, voice, tasks>>

(***************************************************************************)
(* Python values.                                                          *)
(***************************************************************************)
\* Python's None (a left_ts that is NULL in the table, an unset AFK channel).
NULL == -1

\* Truthiness of an int-or-None value, as `x or y` and `x and y` test it.
Falsy(x) == x = NULL \/ x = 0

\* `a or b`
PyOr(a, b) == IF Falsy(a) THEN b ELSE a

Max2(a, b) == IF a >= b THEN a ELSE b
Min2(a, b) == IF a <= b THEN a ELSE b

(***************************************************************************)
(* Civil time: datetime.fromtimestamp(ts, tz), .replace(...), + timedelta, *)
(* .timestamp(), .hour, .weekday(), .strftime("%Y-%m-%d").                 *)
(***************************************************************************)
HourSecs == 3600
DaySecs == 86400
NumHours == 24
NumWeekdays == 7

\* Europe/Stockholm: CET (+1h) all year until 1980; in 1980 CEST (+2h) from
\* 1980-04-06 01:00 UTC until 1980-09-28 01:00 UTC.  The model's timestamps
\* stay before the 1981 change.
CetOffset == 3600
CestOffset == 7200
StockholmDstStart == 323830800
StockholmDstEnd == 338950800

KnownZones == {"UTC", "Europe/Stockholm"}

\* try: zoneinfo.ZoneInfo(tz_name) / except: timezone.utc
ResolveTz(tz_name) == IF tz_name \in KnownZones THEN tz_name ELSE "UTC"

\* tz.utcoffset() of the instant ts.
UtcOffset(tz, ts) ==
    IF tz = "Europe/Stockholm"
    THEN IF ts >= StockholmDstStart /\ ts < StockholmDstEnd
         THEN CestOffset ELSE CetOffset
    ELSE 0

\* datetime.fromtimestamp(ts, tz): the wall clock reading, in seconds since
\* 1970-01-01 00:00 of the wall calendar.
Wall(tz, ts) == ts + UtcOffset(tz, ts)

\* utcoffset() of a wall reading with fold = 0 (the result of datetime
\* arithmetic): a reading inside a gap takes the offset in force before the
\* change, an ambiguous reading is its first occurrence.
WallOffset(tz, w) ==
    IF tz = "Europe/Stockholm"
    THEN IF w >= StockholmDstStart + CestOffset /\ w < StockholmDstEnd + CestOffset
         THEN CestOffset ELSE CetOffset
    ELSE 0

\* int(dt.timestamp()) of the wall reading w.
TsOfWall(tz, w) == w - WallOffset(tz, w)

\* NextHourTs with the hour not added: the top of the current hour.
ThisHourTs(tz, cur) == TsOfWall(tz, (Wall(tz, cur) \div HourSecs) * HourSecs)

\* (cur_dt.replace(minute=0, second=0, microsecond=0) + timedelta(hours=1)).timestamp()
NextHourTs(tz, cur) ==
    TsOfWall(tz, (Wall(tz, cur) \div HourSecs) * HourSecs + HourSecs)

\* NextMidnightTs with the zone ignored: the next UTC midnight.
NextMidnightUtc(tz, cur) == (cur \div DaySecs) * DaySecs + DaySecs

\* (cur_dt.replace(hour=0, minute=0, second=0, microsecond=0) + timedelta(days=1)).timestamp()
NextMidnightTs(tz, cur) ==
    TsOfWall(tz, (Wall(tz, cur) \div DaySecs) * DaySecs + DaySecs)

\* HourOf with the zone ignored: the UTC hour.
HourOfUtc(tz, ts) == (ts \div HourSecs) % NumHours

\* cur_dt.hour
HourOf(tz, ts) == (Wall(tz, ts) \div HourSecs) % NumHours

\* cur_dt.weekday(): Monday = 0 .. Sunday = 6; 1970-01-01 was a Thursday.
WeekdayOf(tz, ts) == ((Wall(tz, ts) \div DaySecs) + 3) % NumWeekdays

\* The proleptic Gregorian date <<year, month, day>> of day number z
\* (days since 1970-01-01).
CivilFromDays(z) ==
    LET zz == z + 719468
        era == zz \div 146097
        doe == zz - era * 146097
        yoe == (doe - doe \div 1460 + doe \div 36524 - doe \div 146096) \div 365
        doy == doe - (365 * yoe + yoe \div 4 - yoe \div 100)
        mp == (5 * doy + 2) \div 153
        d == doy - (153 * mp + 2) \div 5 + 1
        m == IF mp < 10 THEN mp + 3 ELSE mp - 9
        y == yoe + era * 400 + (IF m <= 2 THEN 1 ELSE 0)
    IN <<y, m, d>>

\* cur_dt.strftime("%Y-%m-%d"), kept as the triple the string spells.
DayKey(tz, ts) == CivilFromDays(Wall(tz, ts) \div DaySecs)

(***************************************************************************)
(* Exclusion policy and interval clamp, as every aggregator inlines them.  *)
(***************************************************************************)
\* Excluded with the test left out: no session is skipped.
ExcludedNever(ch_id, afk_channel_id) == FALSE

\* `if afk_channel_id and ch_id == afk_channel_id: continue`
Excluded(ch_id, afk_channel_id) == ~Falsy(afk_channel_id) /\ ch_id = afk_channel_id

\* `start = max(joined_ts, since_ts)`
ClampStart(joined_ts, since_ts) == Max2(joined_ts, since_ts)

\* ClampEnd with the stored end left out: every session runs to now.
ClampEndNow(left_ts, now_) == now_

\* `end = min(left_ts or now_ts_, now_ts_)`
ClampEnd(left_ts, now_) == Min2(PyOr(left_ts, now_), now_)

\* dict: `d[k] = v`, the dict as the function from its keys to their values.
DictSet(d, k, v) ==
    \* d, k and v are evaluated once, not again for every key.
    CHOOSE f \in {[x \in DOMAIN dd \cup {kk} |-> IF x = kk THEN vv ELSE dd[x]] :
                     dd \in {d}, kk \in {k}, vv \in {v}} : TRUE

\* DictAdd with the running value dropped: `d[k] = v`.
DictAddOverwrite(d, k, v) == DictSet(d, k, v)

\* dict: `d[k] = d.get(k, 0) + v`
DictAdd(d, k, v) == DictSet(d, k, IF k \in DOMAIN d THEN d[k] + v ELSE v)

EmptyDict == << >>

\* The callers of the three histogram aggregators SELECT joined_ts, left_ts,
\* channel_id; the stored row is (user_id, channel_id, joined_ts, left_ts).
Rows3(rs) == [i \in 1..Len(rs) |-> <<rs[i][3], rs[i][4], rs[i][2]>>]

(***************************************************************************)
(* aggregate_seconds_by_hour                                               *)
(***************************************************************************)
RECURSIVE SplitHour(_, _, _, _)
\* `while cur < end:` of aggregate_seconds_by_hour
SplitHour(cur, end, tz, buckets) ==
    IF ~(cur < end) THEN buckets
    ELSE LET boundary == Min2(NextHourTs(tz, cur), end)
             span == boundary - cur
         IN SplitHour(boundary, end, tz,
                      [buckets EXCEPT ![HourOf(tz, cur)] = @ + span])

RECURSIVE HourRows(_, _, _, _, _, _, _)
\* `for joined_ts, left_ts, ch_id in rows:` of aggregate_seconds_by_hour
HourRows(rs, i, since_ts, now_ts_, tz, afk_channel_id, buckets) ==
    IF i > Len(rs) THEN buckets
    ELSE LET start == ClampStart(rs[i][1], since_ts)
             end == ClampEnd(rs[i][2], now_ts_)
         IN HourRows(rs, i + 1, since_ts, now_ts_, tz, afk_channel_id,
                     IF Excluded(rs[i][3], afk_channel_id) THEN buckets
                     ELSE IF end <= start THEN buckets
                     ELSE SplitHour(start, end, tz, buckets))

aggregate_seconds_by_hour(rs, since_ts, now_ts_, tz_name, afk_channel_id) ==
    HourRows(rs, 1, since_ts, now_ts_, ResolveTz(tz_name), afk_channel_id,
             [h \in 0..(NumHours - 1) |-> 0])

(***************************************************************************)
(* aggregate_seconds_by_weekday                                            *)
(***************************************************************************)
RECURSIVE SplitWeekday(_, _, _, _)
\* `while cur < end:` of aggregate_seconds_by_weekday
SplitWeekday(cur, end, tz, buckets) ==
    IF ~(cur < end) THEN buckets
    ELSE LET boundary == Min2(NextMidnightTs(tz, cur), end)
             span == boundary - cur
         IN SplitWeekday(boundary, end, tz,
                         [buckets EXCEPT ![WeekdayOf(tz, cur)] = @ + span])

RECURSIVE WeekdayRows(_, _, _, _, _, _, _)
WeekdayRows(rs, i, since_ts, now_ts_, tz, afk_channel_id, buckets) ==
    IF i > Len(rs) THEN buckets
    ELSE LET start == ClampStart(rs[i][1], since_ts)
             end == ClampEnd(rs[i][2], now_ts_)
         IN WeekdayRows(rs, i + 1, since_ts, now_ts_, tz, afk_channel_id,
                        IF Excluded(rs[i][3], afk_channel_id) THEN buckets
                        ELSE IF end <= start THEN buckets
                        ELSE SplitWeekday(start, end, tz, buckets))

aggregate_seconds_by_weekday(rs, since_ts, now_ts_, tz_name, afk_channel_id) ==
    WeekdayRows(rs, 1, since_ts, now_ts_, ResolveTz(tz_name), afk_channel_id,
                [d \in 0..(NumWeekdays - 1) |-> 0])

(***************************************************************************)
(* aggregate_seconds_by_day                                                *)
(***************************************************************************)
RECURSIVE SplitDay(_, _, _, _)
\* `while cur < end:` of aggregate_seconds_by_day
SplitDay(cur, end, tz, buckets) ==
    IF ~(cur < end) THEN buckets
    ELSE LET boundary == Min2(NextMidnightTs(tz, cur), end)
             span == boundary - cur
         IN SplitDay(boundary, end, tz, DictAdd(buckets, DayKey(tz, cur), span))

RECURSIVE DayRows(_, _, _, _, _, _, _)
DayRows(rs, i, since_ts, now_ts_, tz, afk_channel_id, buckets) ==
    IF i > Len(rs) THEN buckets
    ELSE LET start == ClampStart(rs[i][1], since_ts)
             end == ClampEnd(rs[i][2], now_ts_)
         IN DayRows(rs, i + 1, since_ts, now_ts_, tz, afk_channel_id,
                    IF Excluded(rs[i][3], afk_channel_id) THEN buckets
                    ELSE IF end <= start THEN buckets
                    ELSE SplitDay(start, end, tz, buckets))

aggregate_seconds_by_day(rs, since_ts, now_ts_, tz_name, afk_channel_id) ==
    DayRows(rs, 1, since_ts, now_ts_, ResolveTz(tz_name), afk_channel_id, EmptyDict)

(***************************************************************************)
(* aggregate_unique_users_by_day: `now_` is the wall clock read inside.    *)
(***************************************************************************)
\* SetAdd with the set replaced instead of extended: `day_users[k] = {u}`.
SetAddReplace(d, k, u) == DictSet(d, k, {u})

\* `s = day_users.get(day_key) ... s.add(user_id)`
SetAdd(d, k, u) == DictSet(d, k, IF k \in DOMAIN d THEN d[k] \cup {u} ELSE {u})

RECURSIVE SplitUsers(_, _, _, _, _)
SplitUsers(cur, end, tz, user_id, day_users) ==
    IF ~(cur < end) THEN day_users
    ELSE LET boundary == Min2(NextMidnightTs(tz, cur), end)
         IN SplitUsers(boundary, end, tz, user_id,
                       SetAdd(day_users, DayKey(tz, cur), user_id))

RECURSIVE UsersRows(_, _, _, _, _, _, _)
UsersRows(rs, i, since_ts, now_, tz, afk_channel_id, day_users) ==
    IF i > Len(rs) THEN day_users
    ELSE LET start == ClampStart(rs[i][3], since_ts)
             end == ClampEnd(rs[i][4], now_)
         IN UsersRows(rs, i + 1, since_ts, now_, tz, afk_channel_id,
                      IF Excluded(rs[i][2], afk_channel_id) THEN day_users
                      ELSE IF end <= start THEN day_users
                      ELSE SplitUsers(start, end, tz, rs[i][1], day_users))

\* wall is the value now_ts() returns when the aggregator reads it.
aggregate_unique_users_by_day(rs, since_ts, tz_name, afk_channel_id, wall) ==
    UsersRows(rs, 1, since_ts, wall, ResolveTz(tz_name), afk_channel_id, EmptyDict)

(***************************************************************************)
(* peak_concurrency: `now_` is the wall clock read inside.                 *)
(***************************************************************************)
\* KeyLeq with the tie-break turned round: +1 before -1 at one timestamp.
KeyLeqJoinFirst(k1, k2) == k1[1] < k2[1] \/ (k1[1] = k2[1] /\ k1[2] >= k2[2])

\* Order of (timestamp, delta) pairs, as list.sort() compares tuples and as
\* the key (x[0], x[2]) of the solo sweep compares.
KeyLeq(k1, k2) == k1[1] < k2[1] \/ (k1[1] = k2[1] /\ k1[2] <= k2[2])

\* One step of a stable sort: e goes behind every element not above it.
InsertEvent(sorted, e) ==
    LET n == Cardinality({j \in 1..Len(sorted) : KeyLeq(sorted[j], e)})
    IN SubSeq(sorted, 1, n) \o <<e>> \o SubSeq(sorted, n + 1, Len(sorted))

RECURSIVE SortFrom(_, _, _)
SortFrom(events, i, sorted) ==
    IF i > Len(events) THEN sorted
    ELSE SortFrom(events, i + 1, InsertEvent(sorted, events[i]))

\* SortEvents with the sort left out.
SortEventsNone(events) == events

\* `events.sort()` on (timestamp, delta) tuples
SortEvents(events) == SortFrom(events, 1, << >>)

RECURSIVE PeakEvents(_, _, _, _, _, _)
\* `for _uid, ch_id, joined_ts, left_ts in rows:` of peak_concurrency
PeakEvents(rs, i, since_ts, now_, afk_channel_id, events) ==
    IF i > Len(rs) THEN events
    ELSE LET start == ClampStart(rs[i][3], since_ts)
             end == ClampEnd(rs[i][4], now_)
         IN PeakEvents(rs, i + 1, since_ts, now_, afk_channel_id,
                       IF Excluded(rs[i][2], afk_channel_id) THEN events
                       ELSE IF end <= start THEN events
                       ELSE events \o << <<start, 1>>, <<end, -1>> >>)

\* DictGet with the stored value ignored: always the default.
DictGetDefault(d, k) == 0

\* dict: `d.get(k, 0)`
DictGet(d, k) == IF k \in DOMAIN d THEN d[k] ELSE 0

RECURSIVE PeakSweep(_, _, _, _, _, _, _)
\* `for ts, delta in events:` of peak_concurrency.  steps records, for each
\* event in the order it is applied, <<ts, delta, cur after it>>.
PeakSweep(events, i, tz, cur, overall_peak, per_day_peak, steps) ==
    IF i > Len(events)
    THEN [overall_peak |-> overall_peak, per_day_peak |-> per_day_peak, steps |-> steps]
    ELSE LET ts == events[i][1]
             cur2 == cur + events[i][2]
             day_key == DayKey(tz, ts)
         IN PeakSweep(events, i + 1, tz, cur2,
                      IF cur2 > overall_peak THEN cur2 ELSE overall_peak,
                      IF cur2 > DictGet(per_day_peak, day_key)
                      THEN DictSet(per_day_peak, day_key, cur2)
                      ELSE per_day_peak,
                      Append(steps, <<ts, events[i][2], cur2>>))

\* The sweep of peak_concurrency; wall is the value now_ts() returns when the
\* aggregator reads it.
PeakRun(rs, since_ts, tz_name, afk_channel_id, wall) ==
    PeakSweep(SortEvents(PeakEvents(rs, 1, since_ts, wall, afk_channel_id, << >>)),
              1, ResolveTz(tz_name), 0, 0, EmptyDict, << >>)

\* `return overall_peak, per_day_peak`
peak_concurrency(rs, since_ts, tz_name, afk_channel_id, wall) ==
    LET run == PeakRun(rs, since_ts, tz_name, afk_channel_id, wall)
    IN <<run.overall_peak, run.per_day_peak>>

(***************************************************************************)
(* solo_seconds_per_user: `now_` is the wall clock read inside.            *)
(***************************************************************************)
\* PerChAppend with the channel ignored: every event goes to one list.
PerChAppendOneList(per_ch, ch_id, e1, e2) ==
    IF 0 \in DOMAIN per_ch.ev
    THEN [per_ch EXCEPT !.ev[0] = @ \o <<e1, e2>>]
    ELSE [keys |-> Append(per_ch.keys, 0),
          ev |-> DictSet(per_ch.ev, 0, <<e1, e2>>)]

\* per_ch: a dict channel -> list of (timestamp, user_id, delta), kept as its
\* keys in insertion order and the list of each key.
\* `per_ch.setdefault(ch_id, []).append(...); per_ch[ch_id].append(...)`
PerChAppend(per_ch, ch_id, e1, e2) ==
    IF ch_id \in DOMAIN per_ch.ev
    THEN [per_ch EXCEPT !.ev[ch_id] = @ \o <<e1, e2>>]
    ELSE [keys |-> Append(per_ch.keys, ch_id),
          ev |-> DictSet(per_ch.ev, ch_id, <<e1, e2>>)]

RECURSIVE SoloEvents(_, _, _, _, _, _)
\* `for uid, ch_id, joined_ts, left_ts in rows:` of solo_seconds_per_user
SoloEvents(rs, i, since_ts, now_, afk_channel_id, per_ch) ==
    IF i > Len(rs) THEN per_ch
    ELSE LET start == ClampStart(rs[i][3], since_ts)
             end == ClampEnd(rs[i][4], now_)
         IN SoloEvents(rs, i + 1, since_ts, now_, afk_channel_id,
                       IF Excluded(rs[i][2], afk_channel_id) THEN per_ch
                       ELSE IF end <= start THEN per_ch
                       ELSE PerChAppend(per_ch, rs[i][2],
                                        <<start, rs[i][1], 1>>, <<end, rs[i][1], -1>>))

\* The sort key `(x[0], x[2])` of an event (timestamp, user_id, delta).
SoloKey(e) == <<e[1], e[3]>>

InsertSoloEvent(sorted, e) ==
    LET n == Cardinality({j \in 1..Len(sorted) : KeyLeq(SoloKey(sorted[j]), SoloKey(e))})
    IN SubSeq(sorted, 1, n) \o <<e>> \o SubSeq(sorted, n + 1, Len(sorted))

RECURSIVE SoloSortFrom(_, _, _)
SoloSortFrom(events, i, sorted) ==
    IF i > Len(events) THEN sorted
    ELSE SoloSortFrom(events, i + 1, InsertSoloEvent(sorted, events[i]))

\* SortSoloEvents with the sort left out.
SortSoloEventsNone(events) == events

\* `events.sort(key=lambda x: (x[0], x[2]))`
SortSoloEvents(events) == SoloSortFrom(events, 1, << >>)

RECURSIVE SoloSweep(_, _, _, _, _, _)
\* `for t, uid, delta in events:` of solo_seconds_per_user; prev_t None is
\* NULL.  steps records, for each event in the order it is applied,
\* <<t, delta, len(present) after it>>.
SoloSweep(events, i, present, prev_t, solo_totals, steps) ==
    IF i > Len(events) THEN [solo_totals |-> solo_totals, steps |-> steps]
    ELSE LET t == events[i][1]
             uid == events[i][2]
             delta == events[i][3]
             only_uid == CHOOSE u \in present : TRUE
             present2 == IF delta = 1 THEN present \cup {uid} ELSE present \ {uid}
         IN SoloSweep(events, i + 1, present2, t,
                      IF prev_t # NULL /\ Cardinality(present) = 1
                      THEN DictAdd(solo_totals, only_uid, t - prev_t)
                      ELSE solo_totals,
                      Append(steps, <<t, delta, Cardinality(present2)>>))

RECURSIVE SoloChannels(_, _, _, _)
\* `for ch_id, events in per_ch.items():`; sweeps collects the steps of each
\* channel's sweep.
SoloChannels(per_ch, k, solo_totals, sweeps) ==
    IF k > Len(per_ch.keys) THEN [solo_totals |-> solo_totals, sweeps |-> sweeps]
    ELSE LET one == SoloSweep(SortSoloEvents(per_ch.ev[per_ch.keys[k]]), 1, {}, NULL,
                              solo_totals, << >>)
         IN SoloChannels(per_ch, k + 1, one.solo_totals, Append(sweeps, one.steps))

\* The sweeps of solo_seconds_per_user; wall is the value now_ts() returns
\* when the aggregator reads it.
SoloRun(rs, since_ts, tz_name, afk_channel_id, wall) ==
    SoloChannels(SoloEvents(rs, 1, since_ts, wall, afk_channel_id,
                            [keys |-> << >>, ev |-> EmptyDict]),
                 1, EmptyDict, << >>)

\* `return solo_totals`
solo_seconds_per_user(rs, since_ts, tz_name, afk_channel_id, wall) ==
    SoloRun(rs, since_ts, tz_name, afk_channel_id, wall).solo_totals

(***************************************************************************)
(* Inputs.  A request fixes the table voice_sessions (rows, in id order),   *)
(* the window start, the command's reading of the clock for its SELECT     *)
(* (nowArg), the AFK channel and the zone name; the wall clock (clock) may *)
(* have moved on by the time the command reads it again for the            *)
(* aggregator's `now`, or the aggregator reads it itself.                  *)
(***************************************************************************)
MaxRows == 2
MaxTicks == 1
TickSecs == 900

Users == {1, 2}
Channels == {7, 9}
AfkIds == {NULL, 9}

RowsOf(U, C, P) == {<<u, c, p[1], p[2]>> : u \in U, c \in C, p \in P}

SeqsUpTo(S, n) == UNION {[1..k -> S] : k \in 0..n}

\* The result a command holds: the aggregator called, the now_ts_ it was
\* passed (NULL when it takes none), the now it worked with, and its value.
NoResult == [fn |-> "none", arg |-> NULL, now |-> NULL, val |-> NULL]

\* No splitting loop is being followed; nobody is in a voice channel and no
\* voice-state handler is running.
NoLoop == [gran |-> "none"]
NoVoice == [u \in Users |-> NULL]
NoTasks == << >>

\* A request to an aggregator: the loop and the tracker are out of the picture.
AggregatorOnly == loop = NoLoop /\ voice = NoVoice /\ tasks = NoTasks

\* (joined_ts, left_ts) around the first midnights after the epoch, for a
\* window from 00:50 UTC to 08:30 UTC of the next day (an hour later on the
\* wall in Stockholm): across the top of an hour, inside one hour, across
\* Stockholm's midnight only, across the UTC midnight only, across both, and
\* still open.
EpochSessions ==
    {<<1800, 5400>>, <<5400, 6600>>, <<5400, 84600>>, <<84600, 88200>>,
     <<1800, 88200>>, <<84600, NULL>>}

\* Around the end of summer time in Stockholm (1980-09-28 01:00 UTC, 03:00
\* CEST -> 02:00 CET), for a window from 23:30 the day before to 00:30 the
\* day after: the whole 25-hour day, 01:30 -> 02:30 CEST, 02:30 CEST ->
\* 02:30 CET, 02:30 CET -> 03:30 CET, the evening before, and still open.
FallSessions ==
    {<<StockholmDstEnd - 12600, StockholmDstEnd + 81000>>,
     <<StockholmDstEnd - 5400, StockholmDstEnd - 1800>>,
     <<StockholmDstEnd - 1800, StockholmDstEnd + 1800>>,
     <<StockholmDstEnd + 1800, StockholmDstEnd + 5400>>,
     <<StockholmDstEnd - 12600, StockholmDstEnd - 1800>>,
     <<StockholmDstEnd - 1800, NULL>>}

\* Around the start of summer time (1980-04-06 01:00 UTC, 02:00 CET -> 03:00
\* CEST), for a window from 23:30 the day before to 00:30 the day after: the
\* whole 23-hour day, 01:30 CET -> 03:30 CEST, 00:30 -> 01:30 CET, 03:30 ->
\* 04:30 CEST, the evening before, and still open.
SpringSessions ==
    {<<StockholmDstStart - 9000, StockholmDstStart + 77400>>,
     <<StockholmDstStart - 1800, StockholmDstStart + 1800>>,
     <<StockholmDstStart - 5400, StockholmDstStart - 1800>>,
     <<StockholmDstStart + 1800, StockholmDstStart + 5400>>,
     <<StockholmDstStart - 9000, StockholmDstStart - 1800>>,
     <<StockholmDstStart - 1800, NULL>>}

\* (joined_ts, left_ts) for a window that starts at 117300, after the
\* SELECT's now of 117000: still open, over before the window, and closed
\* inside it at an instant the clock has yet to reach again.
LateWindowSessions == {<<84600, NULL>>, <<5400, 84600>>, <<84600, 117600>>}

InitSplit ==
    /\ res = NoResult
    /\ AggregatorOnly
    /\ afk \in AfkIds
    /\ \/ /\ tzName \in {"UTC", "Europe/Stockholm"}
          /\ rows \in SeqsUpTo(RowsOf({1}, {7}, EpochSessions)
                                 \cup RowsOf({1}, {9}, {<<84600, NULL>>})
                                 \cup RowsOf({2}, {7}, {<<5400, 6600>>}),
                               MaxRows)
          /\ since = 3000
          /\ nowArg = 117000
       \/ /\ tzName \in {"Europe/Stockholm", "Mars/Phobos"}
          /\ rows \in SeqsUpTo(RowsOf({1}, {7}, FallSessions)
                                 \cup RowsOf({1}, {9}, {<<StockholmDstEnd - 1800, NULL>>}),
                               MaxRows)
          /\ since = StockholmDstEnd - 12600
          /\ nowArg = StockholmDstEnd + 81000
       \/ /\ tzName = "Europe/Stockholm"
          /\ rows \in SeqsUpTo(RowsOf({1}, {7}, SpringSessions)
                                 \cup RowsOf({1}, {9}, {<<StockholmDstStart - 1800, NULL>>}),
                               MaxRows)
          /\ since = StockholmDstStart - 9000
          /\ nowArg = StockholmDstStart + 77400
       \* The clock was set back between the command's reading for since and
       \* its reading for the SELECT, by more than the window: since is past
       \* the SELECT's now, and the SELECT still returns the open sessions.
       \/ /\ tzName = "UTC"
          /\ rows \in SeqsUpTo(RowsOf({1}, {7}, LateWindowSessions), MaxRows)
          /\ since = 117300
          /\ nowArg = 117000
    /\ clock = nowArg

\* Sessions of the first 100 seconds: nested, adjacent, overlapping, equal,
\* and still open.
SweepSessions ==
    {<<0, 40>>, <<0, 60>>, <<0, 100>>, <<40, 60>>, <<40, 100>>, <<0, NULL>>}

\* The session sets of the spec's testable properties (peak correctness,
\* solo exactness).
SpecExamples ==
    { << <<1, 7, 0, 100>>, <<2, 7, 10, 50>>, <<3, 7, 20, 30>> >>,
      << <<1, 7, 0, 100>> >>,
      << <<1, 7, 0, 100>>, <<2, 7, 40, 60>> >> }

InitSweep ==
    /\ res = NoResult
    /\ AggregatorOnly
    /\ afk \in AfkIds
    /\ tzName = "UTC"
    /\ rows \in SeqsUpTo(RowsOf({1}, {7}, SweepSessions)
                           \cup RowsOf({1}, {9}, {<<40, 100>>})
                           \cup RowsOf({2}, {7}, {<<0, 60>>}), MaxRows)
                  \cup SpecExamples
    /\ since \in {0, 40}
    /\ nowArg = 100
    /\ clock = nowArg

\* Every (joined_ts, left_ts) over two instants and NULL, ordered or not:
\* closed, open, empty, inverted, and a left_ts of 0.  The window starts at
\* 600, or a day before the command's reading of the clock (days = 1).
AnyPairs == {0, 1800} \X {0, 1800, NULL}

Init ==
    /\ res = NoResult
    /\ AggregatorOnly
    /\ afk \in AfkIds
    /\ tzName = "Europe/Stockholm"
    /\ rows \in SeqsUpTo(RowsOf({1}, {7}, AnyPairs)
                           \cup RowsOf({2}, {9}, {<<0, 1800>>, <<0, NULL>>,
                                                  <<1800, NULL>>, <<0, 0>>}), MaxRows)
    /\ \/ nowArg = 1200 /\ since \in {600, nowArg - DaySecs}
       \/ nowArg = 5400 /\ since = 600
    /\ clock = nowArg

\* (joined_ts, left_ts) around a window from 600 to 1200: over before the
\* window, ending as the window starts, of no length, starting as the window
\* ends (and still open), starting after it, left before it was joined, and
\* two that lie in the window.
QuietPairs ==
    {<<100, 300>>, <<100, 600>>, <<900, 900>>, <<1200, NULL>>, <<1500, 1800>>,
     <<1000, 800>>, <<700, 900>>, <<100, NULL>>}

\* (joined_ts, left_ts) in hours after the epoch, for a window from 12:00 UTC
\* of the first day to 12:00 UTC of the fourth: over all four days, over the
\* second day's evening and the third day's first hours, inside the second
\* day, from the second day to the UTC midnight that ends it, the hour
\* before the first UTC midnight (Stockholm's first hour of the second
\* day), and still open from the third day.
DaysSessions ==
    {<<18 * HourSecs, 78 * HourSecs>>, <<40 * HourSecs, 50 * HourSecs>>,
     <<30 * HourSecs, 40 * HourSecs>>, <<30 * HourSecs, 48 * HourSecs>>,
     <<23 * HourSecs, 24 * HourSecs>>, <<60 * HourSecs, NULL>>}

InitDays ==
    /\ res = NoResult
    /\ AggregatorOnly
    /\ afk \in AfkIds
    /\ tzName \in {"UTC", "Europe/Stockholm"}
    /\ rows \in SeqsUpTo(RowsOf({1}, {7}, DaysSessions)
                           \cup RowsOf({1}, {9}, {<<18 * HourSecs, 78 * HourSecs>>,
                                                  <<60 * HourSecs, NULL>>})
                           \cup RowsOf({2}, {7}, {<<23 * HourSecs, 24 * HourSecs>>,
                                                  <<30 * HourSecs, 48 * HourSecs>>}),
                         MaxRows)
    /\ since = 12 * HourSecs
    /\ nowArg = 84 * HourSecs
    /\ clock = nowArg

\* The arguments of an aggregator called as a function: any list of
\* sessions, the window start and the clock.
InitQuiet ==
    /\ res = NoResult
    /\ AggregatorOnly
    /\ afk \in AfkIds
    /\ tzName = "Europe/Stockholm"
    /\ rows \in SeqsUpTo(RowsOf({1}, Channels, QuietPairs), MaxRows)
    /\ since = 600
    /\ nowArg = 1200
    /\ clock = nowArg

(***************************************************************************)
(* Actions: the wall clock advances; a command handler calls an aggregator *)
(* and keeps what it returned.                                             *)
(***************************************************************************)
Tick ==
    /\ clock < nowArg + MaxTicks * TickSecs
    /\ clock' = clock + TickSecs
    /\ UNCHANGED <<rows, since, nowArg, afk, tzName, res, loop, voice, tasks>>

\* `WHERE joined_ts < ? AND COALESCE(left_ts, strftime('%s','now')) > ?` with
\* the parameters (now_ts(), since).  For an open session the COALESCE is
\* the text strftime returns, and SQLite orders any text above any integer:
\* the second test then holds whatever since is.
InWindow(r, now_, since_ts) ==
    /\ r[3] < now_
    /\ (r[4] = NULL \/ r[4] > since_ts)

\* SQLite answers `joined_ts < ?` from idx_voice_join, so the rows come in
\* the order of that index: by joined_ts, and by id among equal joined_ts.
RECURSIVE IndexOrder(_, _, _)
IndexOrder(rs, i, sorted) ==
    IF i > Len(rs) THEN sorted
    ELSE LET n == Cardinality({j \in 1..Len(sorted) : sorted[j][3] <= rs[i][3]})
         IN IndexOrder(rs, i + 1,
                       SubSeq(sorted, 1, n) \o <<rs[i]>> \o SubSeq(sorted, n + 1, Len(sorted)))

\* The SELECT each command runs before it aggregates (the one of
\* fetch_sessions_window, and the same WHERE in voice_heatmap and its like),
\* on the stored table rs.
fetch_sessions_window(rs, since_ts, now_) ==
    LET Overlaps(r) == InWindow(r, now_, since_ts)
    IN IndexOrder(SelectSeq(rs, Overlaps), 1, << >>)

\* The value the aggregator named fn returns on the rows rs when its `now`
\* (the parameter now_ts_, or the clock it reads itself) is now_.
Apply(fn, rs, since_ts, tz_name, afk_channel_id, now_) ==
    CASE fn = "hour" -> aggregate_seconds_by_hour(Rows3(rs), since_ts, now_, tz_name, afk_channel_id)
      [] fn = "weekday" -> aggregate_seconds_by_weekday(Rows3(rs), since_ts, now_, tz_name, afk_channel_id)
      [] fn = "day" -> aggregate_seconds_by_day(Rows3(rs), since_ts, now_, tz_name, afk_channel_id)
      [] fn = "unique" -> aggregate_unique_users_by_day(rs, since_ts, tz_name, afk_channel_id, now_)
      [] fn = "peak" -> peak_concurrency(rs, since_ts, tz_name, afk_channel_id, now_)
      [] fn = "solo" -> solo_seconds_per_user(rs, since_ts, tz_name, afk_channel_id, now_)

\* A command: it SELECTs the sessions of its window from the table, with its
\* reading nowArg of the clock, and hands them to the aggregator.
\* voice_heatmap: aggregate_seconds_by_hour(rows, since, now_ts(), ...); the
\* now_ts() of the call is a new reading, made after the awaits of the
\* SELECT: the clock as it stands then.
CallHour ==
    /\ res' = [fn |-> "hour", arg |-> clock, now |-> clock,
               val |-> Apply("hour", fetch_sessions_window(rows, since, nowArg),
                            since, tzName, afk, clock)]
    /\ UNCHANGED <<rows, since, nowArg, afk, tzName, clock, loop, voice, tasks>>

CallWeekday ==
    /\ res' = [fn |-> "weekday", arg |-> clock, now |-> clock,
               val |-> Apply("weekday", fetch_sessions_window(rows, since, nowArg),
                            since, tzName, afk, clock)]
    /\ UNCHANGED <<rows, since, nowArg, afk, tzName, clock, loop, voice, tasks>>

CallDay ==
    /\ res' = [fn |-> "day", arg |-> clock, now |-> clock,
               val |-> Apply("day", fetch_sessions_window(rows, since, nowArg),
                            since, tzName, afk, clock)]
    /\ UNCHANGED <<rows, since, nowArg, afk, tzName, clock, loop, voice, tasks>>

\* The other three take no `now`: they read now_ts() when they run, after
\* fetch_sessions_window has read it for the SELECT.
CallUnique ==
    /\ res' = [fn |-> "unique", arg |-> NULL, now |-> clock,
               val |-> Apply("unique", fetch_sessions_window(rows, since, nowArg),
                            since, tzName, afk, clock)]
    /\ UNCHANGED <<rows, since, nowArg, afk, tzName, clock, loop, voice, tasks>>

CallPeak ==
    /\ res' = [fn |-> "peak", arg |-> NULL, now |-> clock,
               val |-> Apply("peak", fetch_sessions_window(rows, since, nowArg),
                            since, tzName, afk, clock)]
    /\ UNCHANGED <<rows, since, nowArg, afk, tzName, clock, loop, voice, tasks>>

CallSolo ==
    /\ res' = [fn |-> "solo", arg |-> NULL, now |-> clock,
               val |-> Apply("solo", fetch_sessions_window(rows, since, nowArg),
                            since, tzName, afk, clock)]
    /\ UNCHANGED <<rows, since, nowArg, afk, tzName, clock, loop, voice, tasks>>

NextSplit == Tick \/ CallHour \/ CallWeekday \/ CallDay \/ CallUnique

NextSweep == Tick \/ CallPeak \/ CallSolo

Next == Tick \/ CallHour \/ CallWeekday \/ CallDay \/ CallUnique \/ CallPeak \/ CallSolo

Spec == Init /\ [][Next]_vars

SpecSplit == InitSplit /\ [][NextSplit]_vars

SpecSweep == InitSweep /\ [][NextSweep]_vars

\* An aggregator called as a function on a list of sessions that no SELECT
\* has gone over: aggregate_seconds_by_hour, _by_weekday and _by_day with
\* the clock's reading as their now_ts_, the other three reading the clock
\* themselves.
Aggregate(fn) ==
    /\ res' = [fn |-> fn,
               arg |-> IF fn \in {"hour", "weekday", "day"} THEN clock ELSE NULL,
               now |-> clock,
               val |-> Apply(fn, rows, since, tzName, afk, clock)]
    /\ UNCHANGED <<rows, since, nowArg, afk, tzName, clock, loop, voice, tasks>>

NextQuiet ==
    \/ Tick
    \/ Aggregate("hour") \/ Aggregate("weekday") \/ Aggregate("day")
    \/ Aggregate("unique") \/ Aggregate("peak") \/ Aggregate("solo")

SpecQuiet == InitQuiet /\ [][NextQuiet]_vars

NextDays == Tick \/ CallPeak \/ CallUnique

SpecDays == InitDays /\ [][NextDays]_vars

\* The days of the longest window followed through the loops; a command
\* takes up to 3650 (`days: app_commands.Range[int, 1, 3650]`).
LongDays == 731

(***************************************************************************)
(* The histogram aggregators of hours and of days, one loop iteration at a *)
(* time: the `for` over the rows and inside it the `while cur < end` that  *)
(* splits a clamped interval at the bucket boundaries.                     *)
(***************************************************************************)
\* Around the end of summer time in Stockholm, for a window of six days and
\* a quarter: still open from before the window, 02:30 CEST -> 03:30 CET
\* (through the hour that comes twice), inside one hour, the local day
\* before from midnight to midnight, and the 25-hour day.
LoopFallSessions ==
    {<<StockholmDstEnd - 4 * DaySecs, NULL>>,
     <<StockholmDstEnd - 1800, StockholmDstEnd + 5400>>,
     <<StockholmDstEnd + 1800, StockholmDstEnd + 3000>>,
     <<StockholmDstEnd - 97200, StockholmDstEnd - 10800>>,
     <<StockholmDstEnd - 12600, StockholmDstEnd + 81000>>}

\* Around the start of summer time: 01:30 CET -> 03:30 CEST (over the hour
\* that does not come), of no length (the SELECT returns it, the loop skips
\* it), and still open over the 23-hour day.
LoopSpringSessions ==
    {<<StockholmDstStart - 1800, StockholmDstStart + 1800>>,
     <<StockholmDstStart + 1800, StockholmDstStart + 1800>>,
     <<StockholmDstStart - 1800, NULL>>}

InitLoop ==
    /\ res = NoResult
    /\ loop = NoLoop
    /\ voice = NoVoice
    /\ tasks = NoTasks
    /\ \/ /\ afk \in AfkIds
          /\ tzName = "Europe/Stockholm"
          /\ rows \in SeqsUpTo(RowsOf({1}, {7}, LoopFallSessions)
                                 \cup RowsOf({2}, {9}, {<<StockholmDstEnd, NULL>>}), MaxRows)
          /\ since = StockholmDstEnd - 3 * DaySecs - 12600
          /\ nowArg = StockholmDstEnd + 3 * DaySecs + 9000
       \/ /\ afk \in AfkIds
          /\ tzName \in {"Europe/Stockholm", "UTC"}
          /\ rows \in SeqsUpTo(RowsOf({1}, {7}, LoopSpringSessions), MaxRows)
          /\ since = StockholmDstStart - DaySecs
          /\ nowArg = StockholmDstStart + DaySecs + 9000
       \* A window of LongDays days that ends three days after summer time
       \* does in 1980, and one session open since before it: more than two
       \* years in one clamped interval, over both changes of the offset.
       \/ /\ afk = NULL
          /\ tzName = "Europe/Stockholm"
          /\ rows = << <<1, 7, 0, NULL>> >>
          /\ nowArg = StockholmDstEnd + 3 * DaySecs + 9000
          /\ since = nowArg - LongDays * DaySecs
    /\ clock = nowArg
    \* The loop runs over the rows as the command's SELECT returned them.
    /\ rows = fetch_sessions_window(rows, since, nowArg)

\* `buckets = [0] * 24` / `buckets: dict[str, int] = {}`, and the `for`
\* about to take its first row.
EnterLoop(gran) ==
    /\ loop = NoLoop
    /\ loop' = [gran |-> gran, now |-> clock, pc |-> "for", i |-> 1,
                start |-> NULL, cur |-> NULL, end |-> NULL, iters |-> 0,
                buckets |-> IF gran = "hour" THEN [h \in 0..(NumHours - 1) |-> 0]
                            ELSE EmptyDict]
    /\ UNCHANGED <<rows, since, nowArg, afk, tzName, clock, res, voice, tasks>>

EnterHourLoop == EnterLoop("hour")

EnterDayLoop == EnterLoop("day")

\* `for joined_ts, left_ts, ch_id in rows:` up to `cur = start`; an excluded
\* row is skipped before start and end are assigned, a row with
\* `end <= start` after; `return buckets` after the last row.
ForRow ==
    /\ loop # NoLoop
    /\ loop.pc = "for"
    /\ IF loop.i > Len(rows)
       THEN loop' = [loop EXCEPT !.pc = "done"]
       ELSE LET r == Rows3(rows)[loop.i]
                start == ClampStart(r[1], since)
                end == ClampEnd(r[2], loop.now)
            IN IF Excluded(r[3], afk)
               THEN loop' = [loop EXCEPT !.i = @ + 1]
               ELSE IF end <= start
               THEN loop' = [loop EXCEPT !.i = @ + 1, !.start = start, !.end = end]
               ELSE loop' = [loop EXCEPT !.pc = "while", !.start = start,
                                         !.cur = start, !.end = end, !.iters = 0]
    /\ UNCHANGED <<rows, since, nowArg, afk, tzName, clock, res, voice, tasks>>

\* One test of `while cur < end:` and, when it holds, one run of the body.
WhileIteration(gran) ==
    /\ loop # NoLoop
    /\ loop.gran = gran
    /\ loop.pc = "while"
    /\ IF loop.cur < loop.end
       THEN LET tz == ResolveTz(tzName)
                next == IF gran = "hour" THEN NextHourTs(tz, loop.cur)
                        ELSE NextMidnightTs(tz, loop.cur)
                boundary == Min2(next, loop.end)
                span == boundary - loop.cur
            IN loop' = [loop EXCEPT
                          !.buckets = IF gran = "hour"
                                      THEN [@ EXCEPT ![HourOf(tz, loop.cur)] = @ + span]
                                      ELSE DictAdd(@, DayKey(tz, loop.cur), span),
                          !.cur = boundary,
                          !.iters = @ + 1]
       ELSE loop' = [loop EXCEPT !.pc = "for", !.i = @ + 1]
    /\ UNCHANGED <<rows, since, nowArg, afk, tzName, clock, res, voice, tasks>>

HourIteration == WhileIteration("hour")

DayIteration == WhileIteration("day")

NextLoop == Tick \/ EnterHourLoop \/ EnterDayLoop \/ ForRow \/ HourIteration \/ DayIteration

\* The aggregator is straight-line code with no await in it: once entered,
\* it runs on.
SpecLoop == InitLoop /\ [][NextLoop]_vars /\ WF_vars(NextLoop)

(***************************************************************************)
(* Voice tracking: on_voice_state_update.  The library starts one task per *)
(* voice-state update; the task reads the clock on entry, then awaits a    *)
(* database connection of its own, writes and commits, and may be         *)
(* suspended at each await.  rows is the committed table voice_sessions in *)
(* id order, as another connection reads it; voice the channel each member *)
(* is in; tasks the handlers in the order they were started, each with its *)
(* position (pc) and, while its transaction is open, the table as that     *)
(* transaction has it (txn).                                               *)
(***************************************************************************)
MaxUpdates == 3

\* What earlier runs of the handler left in the table (CREATE TABLE IF NOT
\* EXISTS keeps it): nothing, a join, a join and a leave, a join and a switch.
StoredBefore ==
    { << >>,
      << <<1, 7, 10, NULL>> >>,
      << <<1, 7, 10, 20>> >>,
      << <<1, 7, 10, 20>>, <<1, 9, 20, NULL>> >> }

InitTrack ==
    /\ res = NoResult
    /\ loop = NoLoop
    /\ tasks = NoTasks
    /\ voice \in [Users -> Channels \cup {NULL}]
    /\ rows \in StoredBefore
    /\ since = 0
    /\ nowArg = 3600
    /\ afk = NULL
    /\ tzName = "UTC"
    /\ clock = nowArg

\* The branch the handler takes: the if / elif / elif of lines 353, 358, 363.
BranchOf(before, after) ==
    IF before = NULL /\ after # NULL THEN "join"
    ELSE IF before # NULL /\ after = NULL THEN "leave"
    ELSE IF before # NULL /\ after # NULL /\ before # after THEN "switch"
    ELSE "none"

\* Every handler started has ended, by returning or by raising.
AllDone == \A k \in 1..Len(tasks) : tasks[k].pc \in {"done", "raised"}

\* A member's voice state changes (or is updated within its channel) and the
\* handler is entered: `now = now_ts()`, and the branch is chosen.  With
\* oneAtATime the update comes only when every earlier handler is through.
HandlerEntry(u, after, oneAtATime) ==
    /\ Len(tasks) < MaxUpdates
    /\ oneAtATime => AllDone
    /\ ~(voice[u] = NULL /\ after = NULL)
    /\ voice' = [voice EXCEPT ![u] = after]
    /\ tasks' = Append(tasks,
                       [uid |-> u, before |-> voice[u], after |-> after, now |-> clock,
                        txn |-> << >>,
                        pc |-> IF BranchOf(voice[u], after) = "none" THEN "done"
                               ELSE "connect"])
    /\ UNCHANGED <<rows, since, nowArg, afk, tzName, clock, res, loop>>

VoiceStateUpdate == \E u \in Users, after \in Channels \cup {NULL} : HandlerEntry(u, after, FALSE)

VoiceStateUpdateInTurn == \E u \in Users, after \in Channels \cup {NULL} : HandlerEntry(u, after, TRUE)

\* SQLite lets one connection write at a time: a handler holds the write
\* lock from its first INSERT or UPDATE until its commit.
WriteLockFree == \A k \in 1..Len(tasks) : tasks[k].pc \notin {"insert", "commit"}

\* "INSERT INTO voice_sessions(user_id, channel_id, joined_ts) VALUES(?,?,?)"
InsertSession(rs, user_id, channel_id, joined_ts) ==
    Append(rs, <<user_id, channel_id, joined_ts, NULL>>)

\* "UPDATE voice_sessions SET left_ts=? WHERE user_id=? AND channel_id=? AND
\* left_ts IS NULL"
CloseSessions(rs, left_ts, user_id, channel_id) ==
    [i \in 1..Len(rs) |->
        IF rs[i][1] = user_id /\ rs[i][2] = channel_id /\ rs[i][4] = NULL
        THEN <<rs[i][1], rs[i][2], rs[i][3], left_ts>>
        ELSE rs[i]]

\* A handler at the statement that would take the write lock.
AtFirstWrite(k, branch) ==
    /\ tasks[k].pc = "connect"
    /\ BranchOf(tasks[k].before, tasks[k].after) = branch

\* `await cx.commit()`: the transaction's table becomes the stored one and
\* the lock is released; the handler is through.
Commit(k, branch) ==
    /\ tasks[k].pc = "commit"
    /\ BranchOf(tasks[k].before, tasks[k].after) = branch
    /\ rows' = tasks[k].txn
    /\ tasks' = [tasks EXCEPT ![k].pc = "done", ![k].txn = << >>]
    /\ UNCHANGED <<since, nowArg, afk, tzName, clock, res, loop, voice>>

\* The join branch once connected: its INSERT, which opens the transaction
\* and takes the write lock.
JoinInsert ==
    \E k \in 1..Len(tasks) :
        /\ AtFirstWrite(k, "join")
        /\ WriteLockFree
        /\ tasks' = [tasks EXCEPT
                        ![k].pc = "commit",
                        ![k].txn = InsertSession(rows, tasks[k].uid, tasks[k].after, tasks[k].now)]
        /\ UNCHANGED <<rows, since, nowArg, afk, tzName, clock, res, loop, voice>>

JoinCommit == \E k \in 1..Len(tasks) : Commit(k, "join")

\* The leave branch once connected: its UPDATE.
LeaveUpdate ==
    \E k \in 1..Len(tasks) :
        /\ AtFirstWrite(k, "leave")
        /\ WriteLockFree
        /\ tasks' = [tasks EXCEPT
                        ![k].pc = "commit",
                        ![k].txn = CloseSessions(rows, tasks[k].now, tasks[k].uid, tasks[k].before)]
        /\ UNCHANGED <<rows, since, nowArg, afk, tzName, clock, res, loop, voice>>

LeaveCommit == \E k \in 1..Len(tasks) : Commit(k, "leave")

\* The switch branch once connected: its UPDATE.
SwitchUpdate ==
    \E k \in 1..Len(tasks) :
        /\ AtFirstWrite(k, "switch")
        /\ WriteLockFree
        /\ tasks' = [tasks EXCEPT
                        ![k].pc = "insert",
                        ![k].txn = CloseSessions(rows, tasks[k].now, tasks[k].uid, tasks[k].before)]
        /\ UNCHANGED <<rows, since, nowArg, afk, tzName, clock, res, loop, voice>>

\* The switch branch: its INSERT, in the transaction its UPDATE opened.
SwitchInsert ==
    \E k \in 1..Len(tasks) :
        /\ tasks[k].pc = "insert"
        /\ tasks' = [tasks EXCEPT
                        ![k].pc = "commit",
                        ![k].txn = InsertSession(@, tasks[k].uid, tasks[k].after, tasks[k].now)]
        /\ UNCHANGED <<rows, since, nowArg, afk, tzName, clock, res, loop, voice>>

SwitchCommit == \E k \in 1..Len(tasks) : Commit(k, "switch")

\* aiosqlite.connect(DB_PATH) sets no timeout, so a first INSERT or UPDATE
\* that finds the write lock taken waits for sqlite3's default of 5 seconds;
\* when the lock is held longer the statement raises OperationalError
\* ("database is locked"), the handler ends and its write is never made.
DatabaseLocked ==
    \E k \in 1..Len(tasks) :
        /\ tasks[k].pc = "connect"
        /\ ~WriteLockFree
        /\ tasks' = [tasks EXCEPT ![k].pc = "raised"]
        /\ UNCHANGED <<rows, since, nowArg, afk, tzName, clock, res, loop, voice>>

\* now_ts() is int(time.time()), the system's wall clock: between two
\* handlers it may as well have been set back (here never below the reading
\* the run began with).
ClockSetBack ==
    /\ clock > nowArg
    /\ clock' = clock - TickSecs
    /\ UNCHANGED <<rows, since, nowArg, afk, tzName, res, loop, voice, tasks>>

NextTrack ==
    \/ Tick \/ ClockSetBack \/ VoiceStateUpdate
    \/ JoinInsert \/ JoinCommit
    \/ LeaveUpdate \/ LeaveCommit
    \/ SwitchUpdate \/ SwitchInsert \/ SwitchCommit
    \/ DatabaseLocked

\* No handler finds the lock taken when each is through before the next
\* begins.
NextTrackInTurn ==
    \/ Tick \/ ClockSetBack \/ VoiceStateUpdateInTurn
    \/ JoinInsert \/ JoinCommit
    \/ LeaveUpdate \/ LeaveCommit
    \/ SwitchUpdate \/ SwitchInsert \/ SwitchCommit

\* The handlers run as concurrent tasks.
SpecTrack == InitTrack /\ [][NextTrack]_vars

\* Each handler is through before the next update comes.
SpecTrackInTurn == InitTrack /\ [][NextTrackInTurn]_vars

(***************************************************************************)
(* What the specification says of a session, stated without the code: the  *)
(* exclusion policy (4.1) and the interval clamp (4.2).                    *)
(***************************************************************************)
\* The session r = (user_id, channel_id, joined_ts, left_ts) is in the idle
\* channel that is configured.
InIdleChannel(r) == afk # NULL /\ r[2] = afk

\* start = max(joined_ts, since)
SpecStart(r) == IF r[3] >= since THEN r[3] ELSE since

\* end = min(left_ts if present else now, now)
SpecEnd(r, now) ==
    LET e == IF r[4] = NULL THEN now ELSE r[4]
    IN IF e <= now THEN e ELSE now

\* r contributes: it is not excluded and its clamped interval is not empty.
Contributes(r, now) == ~InIdleChannel(r) /\ SpecEnd(r, now) > SpecStart(r)

RECURSIVE SumOver(_, _)
\* The sum of f over the keys in D.
SumOver(f, D) ==
    IF D = {} THEN 0
    ELSE LET k == CHOOSE x \in D : TRUE
         IN f[k] + SumOver(f, D \ {k})

\* The sum of the clamped durations of the contributing sessions.
ClampedTotal(now) ==
    LET dur == [i \in 1..Len(rows) |->
                   IF Contributes(rows[i], now)
                   THEN SpecEnd(rows[i], now) - SpecStart(rows[i]) ELSE 0]
    IN SumOver(dur, 1..Len(rows))

(***************************************************************************)
(* C1 (conservation): whatever the sessions, the window and the excluded   *)
(* channel, the 24 hour buckets, the 7 weekday buckets and the daily       *)
(* buckets each add up to the sum of end - start over the non-excluded     *)
(* sessions whose clamped interval is not empty, so the three sums agree.  *)
(***************************************************************************)
\* C1: each histogram's buckets add up to the sum of the clamped durations.
C1_Conservation ==
    /\ res.fn = "hour" =>
          /\ DOMAIN res.val = 0..23
          /\ SumOver(res.val, DOMAIN res.val) = ClampedTotal(res.now)
    /\ res.fn = "weekday" =>
          /\ DOMAIN res.val = 0..6
          /\ SumOver(res.val, DOMAIN res.val) = ClampedTotal(res.now)
    /\ res.fn = "day" =>
          SumOver(res.val, DOMAIN res.val) = ClampedTotal(res.now)

\* Two contributing sessions, one of them cut by the window, spread over
\* several days.
C1_Witness ==
    /\ res.fn = "day"
    /\ Len(rows) = 2
    /\ \A i \in 1..2 : Contributes(rows[i], res.now)
    /\ \E i \in 1..2 : rows[i][3] < since
    /\ Cardinality(DOMAIN res.val) >= 2
    /\ SumOver(res.val, DOMAIN res.val) = ClampedTotal(res.now)

(***************************************************************************)
(* C9 (boundary split): one non-excluded session whose clamped interval    *)
(* [start, end) lies on exactly two consecutive local days gives exactly   *)
(* two daily keys, midnight - start for the first day and end - midnight   *)
(* for the second, which add up to end - start.                            *)
(***************************************************************************)
\* The number of the local calendar day that holds the instant t.
LocalDay(t) == (t + UtcOffset(ResolveTz(tzName), t)) \div 86400

\* The instant between s and e at which the local date changes; offsets are
\* whole hours, so it is a whole hour of the epoch.
LocalMidnight(s, e) ==
    CHOOSE m \in {h * 3600 : h \in (s \div 3600)..(e \div 3600)} :
        /\ s < m /\ m < e
        /\ LocalDay(m - 1) = LocalDay(s)
        /\ LocalDay(m) = LocalDay(s) + 1

TwoDaySession ==
    /\ Len(rows) = 1
    /\ Contributes(rows[1], res.now)
    /\ LocalDay(SpecEnd(rows[1], res.now) - 1) = LocalDay(SpecStart(rows[1])) + 1

\* C9: a two-day session gives midnight - start and end - midnight.
C9_TwoDaySplit ==
    (res.fn = "day" /\ TwoDaySession) =>
        LET s == SpecStart(rows[1])
            e == SpecEnd(rows[1], res.now)
            m == LocalMidnight(s, e)
            day1 == CivilFromDays(LocalDay(s))
            day2 == CivilFromDays(LocalDay(s) + 1)
        IN /\ DOMAIN res.val = {day1, day2}
           /\ day1 # day2
           /\ res.val[day1] = m - s
           /\ res.val[day2] = e - m
           /\ res.val[day1] + res.val[day2] = e - s

\* A two-day session in Stockholm, where the local midnight is not the UTC one.
C9_Witness ==
    /\ res.fn = "day"
    /\ TwoDaySession
    /\ tzName = "Europe/Stockholm"
    /\ Cardinality(DOMAIN res.val) = 2

(***************************************************************************)
(* C10 (single-bucket containment): one non-excluded session whose clamped *)
(* interval lies inside one local hour h gives end - start in bucket h and *)
(* 0 in the other 23 buckets.                                              *)
(***************************************************************************)
\* The number of the local wall-clock hour that holds the instant t.
LocalHour(t) == (t + UtcOffset(ResolveTz(tzName), t)) \div 3600

OneHourSession ==
    /\ Len(rows) = 1
    /\ Contributes(rows[1], res.now)
    /\ LocalHour(SpecEnd(rows[1], res.now) - 1) = LocalHour(SpecStart(rows[1]))

\* C10: a session inside one local hour fills that hour's bucket only.
C10_OneHourBucket ==
    (res.fn = "hour" /\ OneHourSession) =>
        LET s == SpecStart(rows[1])
            e == SpecEnd(rows[1], res.now)
            h == LocalHour(s) % 24
        IN res.val = [k \in 0..23 |-> IF k = h THEN e - s ELSE 0]

\* A session inside one local hour of Stockholm, whose hour of the day is
\* not the UTC one.
C10_Witness ==
    /\ res.fn = "hour"
    /\ OneHourSession
    /\ tzName = "Europe/Stockholm"
    /\ \E k \in 0..23 : res.val[k] > 0

(***************************************************************************)
(* C2 (solo exactness), as amended: in one non-excluded channel and a      *)
(* window covering [0, 100], user A's session [0, 100) alone gives A a     *)
(* solo time of 100; with user B's session [40, 60) in the same channel A  *)
(* is alone during [0, 40) and [60, 100), 80 seconds, and B has none.      *)
(***************************************************************************)
AloneExample == << <<1, 7, 0, 100>> >>
PairExample == << <<1, 7, 0, 100>>, <<2, 7, 40, 60>> >>

\* The solo time the result gives user u: `solo_totals.get(u, 0)`.
SoloOf(u) == IF u \in DOMAIN res.val THEN res.val[u] ELSE 0

WindowCoversExample == since = 0 /\ res.now >= 100

\* C2 (amended): A alone gets 100; with B's [40, 60) A gets 80 and B nothing.
C2_SoloExample ==
    (res.fn = "solo" /\ WindowCoversExample) =>
        /\ rows = AloneExample => SoloOf(1) = 100
        /\ rows = PairExample => (SoloOf(1) = 80 /\ SoloOf(2) = 0)

\* C2 as the spec words it: B's session brings A's solo time down to 60.
C2_AsWritten ==
    (res.fn = "solo" /\ WindowCoversExample) =>
        /\ rows = AloneExample => SoloOf(1) = 100
        /\ rows = PairExample => (SoloOf(1) = 60 /\ SoloOf(2) = 0)

C2_Witness ==
    /\ res.fn = "solo"
    /\ WindowCoversExample
    /\ rows = PairExample
    /\ res.val = (1 :> 80)

(***************************************************************************)
(* C3 (peak correctness): the overall peak is the largest number of        *)
(* non-excluded clamped intervals [start, end) that hold one instant, 0    *)
(* when there is none; the sessions [0, 100), [10, 50), [20, 30) give 3.   *)
(***************************************************************************)
\* How many contributing sessions are present at the instant t.
PresentAt(t, now) ==
    Cardinality({i \in 1..Len(rows) :
                    /\ Contributes(rows[i], now)
                    /\ SpecStart(rows[i]) <= t
                    /\ t < SpecEnd(rows[i], now)})

\* The largest occupancy over the instants of the window.
TruePeak(now) ==
    LET counts == {PresentAt(t, now) : t \in since..now}
    IN CHOOSE c \in counts \cup {0} : \A d \in counts : d <= c

PeakExample == << <<1, 7, 0, 100>>, <<2, 7, 10, 50>>, <<3, 7, 20, 30>> >>

\* C3: the overall peak is the largest simultaneous occupancy; the example gives 3.
C3_OverallPeak ==
    res.fn = "peak" =>
        /\ res.val[1] = TruePeak(res.now)
        /\ (rows = PeakExample /\ WindowCoversExample) => res.val[1] = 3

C3_Witness ==
    /\ res.fn = "peak"
    /\ rows = PeakExample
    /\ WindowCoversExample
    /\ res.val[1] = 3

(***************************************************************************)
(* C8 (leave before join): both sweeps apply their events in ascending     *)
(* (timestamp, delta) order, every -1 of an instant before every +1 of it, *)
(* so the running counter never goes above both its value before the       *)
(* instant and its value after it; two sessions [a, t) and [t, b) alone    *)
(* give an overall peak of 1.                                              *)
(***************************************************************************)
\* steps: <<timestamp, delta, counter after the event>> in the order applied.
Ascending(steps) ==
    \A i, j \in 1..Len(steps) :
        i < j => \/ steps[i][1] < steps[j][1]
                 \/ (steps[i][1] = steps[j][1] /\ steps[i][2] <= steps[j][2])

\* The counter as it stood before the first event of the instant of step i.
CounterBefore(steps, i) ==
    LET earlier == {j \in 1..Len(steps) : steps[j][1] < steps[i][1]}
    IN IF earlier = {} THEN 0
       ELSE steps[CHOOSE j \in earlier : \A k \in earlier : k <= j][3]

\* The counter once every event of the instant of step i is applied.
CounterAfter(steps, i) ==
    LET same == {j \in 1..Len(steps) : steps[j][1] = steps[i][1]}
    IN steps[CHOOSE j \in same : \A k \in same : k <= j][3]

NoOvershoot(steps) ==
    \A i \in 1..Len(steps) :
        \/ steps[i][3] <= CounterBefore(steps, i)
        \/ steps[i][3] <= CounterAfter(steps, i)

\* One session ends at the instant the other starts, and both contribute.
HandOver ==
    /\ Len(rows) = 2
    /\ \A i \in 1..2 : Contributes(rows[i], res.now)
    /\ rows[1][4] # NULL
    /\ rows[1][4] = rows[2][3]

\* C8: events ascend in (timestamp, delta), no transient over-count, hand-over peak 1.
C8_LeaveBeforeJoin ==
    /\ res.fn = "peak" =>
          LET steps == PeakRun(rows, since, tzName, afk, res.now).steps
          IN /\ Ascending(steps)
             /\ NoOvershoot(steps)
             /\ HandOver => res.val[1] = 1
    /\ res.fn = "solo" =>
          LET sweeps == SoloRun(rows, since, tzName, afk, res.now).sweeps
          IN \A k \in 1..Len(sweeps) :
                Ascending(sweeps[k]) /\ NoOvershoot(sweeps[k])

\* A user switches channel at t: [a, t) and [t, b), and the peak is 1.
C8_Witness ==
    /\ res.fn = "peak"
    /\ HandOver
    /\ rows[1][1] = rows[2][1]
    /\ rows[1][2] # rows[2][2]
    /\ res.val[1] = 1

(***************************************************************************)
(* C4 (idempotence): an aggregator called twice with the same arguments    *)
(* returns the same value, also when a session is still open and the wall  *)
(* clock advances between the calls.  The rows, the window start, the zone *)
(* and the excluded channel never change in a behaviour, so two successive *)
(* results of one aggregator, passed the same now_ts_ where it takes one,  *)
(* must be equal.                                                          *)
(***************************************************************************)
\* C4: two successive results of one aggregator on the same arguments are equal.
C4_Idempotent ==
    [][(res.fn # "none" /\ res'.fn = res.fn /\ res'.arg = res.arg)
          => res'.val = res.val]_vars

(***************************************************************************)
(* C5 (open-session clamp): in every aggregator an open session ends at    *)
(* the `now` the caller supplied, the instant the caller built its window  *)
(* with, never at a clock value read inside the aggregator: with only open *)
(* sessions stored, the result is the one computed with the caller's now.  *)
(* The caller's now is the now_ts_ it passed; a caller that passes none    *)
(* has the reading it fetched the rows with.                               *)
(***************************************************************************)
AllOpen == \A i \in 1..Len(rows) : rows[i][4] = NULL

CallerNow == IF res.arg # NULL THEN res.arg ELSE nowArg

\* C5: open sessions end at the caller's now in every aggregator.
C5_CallerNow ==
    (res.fn # "none" /\ AllOpen) =>
        res.val = Apply(res.fn, fetch_sessions_window(rows, since, nowArg),
                        since, tzName, afk, CallerNow)

(***************************************************************************)
(* C6 (exclusion): with an excluded channel configured, every aggregator   *)
(* returns what it returns on the same rows with the sessions of that      *)
(* channel removed, whatever their duration.                               *)
(***************************************************************************)
NotIdle(r) == ~InIdleChannel(r)

\* C6: the sessions of the excluded channel change no aggregator's result.
C6_Exclusion ==
    (res.fn # "none" /\ afk # NULL) =>
        res.val = Apply(res.fn,
                        fetch_sessions_window(SelectSeq(rows, NotIdle), since, nowArg),
                        since, tzName, afk, res.now)

\* An open session in the excluded channel beside a session that counts.
C6_Witness ==
    /\ res.fn = "solo"
    /\ afk # NULL
    /\ \E i, j \in 1..Len(rows) :
          /\ InIdleChannel(rows[i]) /\ rows[i][4] = NULL /\ rows[i][3] < res.now
          /\ Contributes(rows[j], res.now)
    /\ res.val # EmptyDict

(***************************************************************************)
(* C7 (interval clamp): for every joined_ts, left_ts, since and now the    *)
(* clamp is start = max(joined_ts, since), end = min(left_ts if present    *)
(* else now, now), and a session counts only when end > start: every       *)
(* aggregator returns what it returns on the rows cut down to those        *)
(* clamped intervals, the empty ones dropped.                              *)
(***************************************************************************)
RECURSIVE ClampedFrom(_, _, _)
\* The rows of rs from the i-th on, each replaced by its clamped interval.
ClampedFrom(rs, i, now) ==
    IF i > Len(rs) THEN << >>
    ELSE LET r == rs[i]
             rest == ClampedFrom(rs, i + 1, now)
         IN IF SpecEnd(r, now) > SpecStart(r)
            THEN << <<r[1], r[2], SpecStart(r), SpecEnd(r, now)>> >> \o rest
            ELSE rest

\* C7: every aggregator sees exactly the clamped, non-empty intervals of the
\* rows it is handed.
C7_Clamp ==
    res.fn # "none" =>
        res.val = Apply(res.fn,
                        ClampedFrom(fetch_sessions_window(rows, since, nowArg), 1, res.now),
                        since, tzName, afk, res.now)

(***************************************************************************)
(* C11 (solo time): when the stored sessions satisfy the upstream          *)
(* invariants (left_ts null or >= joined_ts, and no user in two sessions   *)
(* at one time), the solo time of user u is the number of seconds of the   *)
(* window during which the users present in a channel were exactly {u},    *)
(* added up over the non-excluded channels; seconds with no or with        *)
(* several occupants go to nobody.                                         *)
(***************************************************************************)
\* The sessions i and j are not open at one time.
Apart(i, j) ==
    \/ rows[i][4] # NULL /\ rows[i][4] <= rows[j][3]
    \/ rows[j][4] # NULL /\ rows[j][4] <= rows[i][3]

UpstreamInvariants ==
    /\ \A i \in 1..Len(rows) : rows[i][4] = NULL \/ rows[i][4] >= rows[i][3]
    /\ \A i, j \in 1..Len(rows) :
          (i < j /\ rows[i][1] = rows[j][1]) => Apart(i, j)

\* The users present in channel c during the second [t, t + 1).
OccupantsAt(c, t, now) ==
    {rows[i][1] : i \in {k \in 1..Len(rows) :
                            /\ rows[k][2] = c
                            /\ Contributes(rows[k], now)
                            /\ SpecStart(rows[k]) <= t
                            /\ t < SpecEnd(rows[k], now)}}

\* The seconds of the window during which u is the only occupant of c.
AloneSeconds(u, c, now) ==
    Cardinality({t \in since..(now - 1) : OccupantsAt(c, t, now) = {u}})

StoredUsers == {rows[i][1] : i \in 1..Len(rows)}
StoredChannels == {rows[i][2] : i \in 1..Len(rows)}

\* C11: each user's solo time is the seconds alone, summed over the channels.
C11_SoloTime ==
    (res.fn = "solo" /\ UpstreamInvariants) =>
        /\ DOMAIN res.val \subseteq StoredUsers
        /\ \A u \in StoredUsers :
              SoloOf(u) = SumOver([c \in StoredChannels |-> AloneSeconds(u, c, res.now)],
                                  StoredChannels)

\* Two users share a channel for a while: each is alone on one side of the
\* overlap and the shared seconds go to nobody.
C11_Witness ==
    /\ res.fn = "solo"
    /\ UpstreamInvariants
    /\ Len(rows) = 2
    /\ rows[1][1] # rows[2][1]
    /\ rows[1][2] = rows[2][2]
    /\ \A u \in StoredUsers : SoloOf(u) > 0
    /\ \E t \in since..(res.now - 1) :
          OccupantsAt(rows[1][2], t, res.now) = StoredUsers

(***************************************************************************)
(* C12 (unique users by day): user u is in the set of local day d exactly  *)
(* when a non-excluded session of u has a non-empty clamped interval with  *)
(* at least one second on day d; several sessions of u on d count once and *)
(* a day no session touches has no key.                                    *)
(***************************************************************************)
\* The session r has a second of its clamped interval on local day D: the
\* local day never goes back as time goes on, so D lies between the day of
\* the first second and the day of the last.
TouchesDay(r, D, now) ==
    /\ Contributes(r, now)
    /\ LocalDay(SpecStart(r)) <= D
    /\ D <= LocalDay(SpecEnd(r, now) - 1)

UsersOn(D, now) == {rows[i][1] : i \in {k \in 1..Len(rows) : TouchesDay(rows[k], D, now)}}

\* The local days of the window.
WindowDays(now) == LocalDay(since)..LocalDay(now)

\* C12: the set of a day holds exactly the users with a second on that day.
C12_UniqueUsers ==
    res.fn = "unique" =>
        LET touched == {D \in WindowDays(res.now) : UsersOn(D, res.now) # {}}
        IN /\ DOMAIN res.val = {CivilFromDays(D) : D \in touched}
           /\ \A D \in touched : res.val[CivilFromDays(D)] = UsersOn(D, res.now)

\* Two users on one day, one of them with a session that goes on into the
\* next day, where the other is not.
C12_Witness ==
    /\ res.fn = "unique"
    /\ Len(rows) = 2
    /\ \E D \in WindowDays(res.now) :
          /\ UsersOn(D, res.now) = {1, 2}
          /\ Cardinality(UsersOn(D + 1, res.now)) = 1
          /\ res.val[CivilFromDays(D)] = {1, 2}

(***************************************************************************)
(* C13 (empty results): when no stored session survives exclusion and      *)
(* clamping (no rows, rows of the excluded channel only, rows outside the  *)
(* window only), every aggregator returns its empty result: 24 zeros, 7    *)
(* zeros, an empty mapping for daily seconds and for unique users,         *)
(* (0, empty mapping) for the peak and an empty mapping for solo time.     *)
(***************************************************************************)
NoSurvivor(now) == \A i \in 1..Len(rows) : ~Contributes(rows[i], now)

\* C13: with no surviving session every aggregator returns its empty result.
C13_EmptyResults ==
    (res.fn # "none" /\ NoSurvivor(res.now)) =>
        /\ res.fn = "hour" => res.val = [h \in 0..23 |-> 0]
        /\ res.fn = "weekday" => res.val = [d \in 0..6 |-> 0]
        /\ res.fn = "day" => DOMAIN res.val = {}
        /\ res.fn = "unique" => DOMAIN res.val = {}
        /\ res.fn = "peak" => (res.val[1] = 0 /\ DOMAIN res.val[2] = {})
        /\ res.fn = "solo" => DOMAIN res.val = {}

\* A long open session in the excluded channel and a session that was over
\* before the window, and the peak is (0, empty mapping).
C13_Witness ==
    /\ res.fn = "peak"
    /\ Len(rows) = 2
    /\ InIdleChannel(rows[1]) /\ rows[1][4] = NULL /\ rows[1][3] < since
    /\ ~InIdleChannel(rows[2]) /\ rows[2][4] # NULL /\ rows[2][4] < since
    /\ NoSurvivor(res.now)
    /\ res.val = <<0, EmptyDict>>

(***************************************************************************)
(* C14 (per-day peak), as amended: the peak recorded for a local day is    *)
(* the largest value the running counter takes right after an event whose  *)
(* own timestamp falls on that day; a day on which no event leaves a       *)
(* positive count has no entry, also when sessions span it.  A recorded    *)
(* day peak can be below the largest simultaneous occupancy of its day;    *)
(* it never exceeds the larger of that occupancy and the occupancy of the  *)
(* last second before the day begins: leaves applied at the local midnight *)
(* one after the other leave their intermediate counts on the new day.     *)
(***************************************************************************)
\* The counter values left by the events whose timestamp is on local day D.
CountsOn(steps, D) ==
    {steps[i][3] : i \in {k \in 1..Len(steps) : LocalDay(steps[k][1]) = D}}

\* The largest member of a set of naturals, 0 for the empty set.
MaxOf(S) == CHOOSE c \in S \cup {0} : \A d \in S : d <= c

\* The largest simultaneous occupancy during local day D within the window.
\* Every session of the model starts and ends on a whole hour, so the
\* occupancy is read at the window's start and at each whole hour.
DayOccupancy(D, now) ==
    LET instants == {t \in {since} \cup {h * 3600 : h \in (since \div 3600)..(now \div 3600)} :
                        since <= t /\ t < now /\ LocalDay(t) = D}
    IN MaxOf({PresentAt(t, now) : t \in instants})

\* The occupancy of the last second before local day D begins, 0 when the
\* day begins before the window does.
EveOccupancy(D, now) ==
    LET begins == {m \in {h * 3600 : h \in (since \div 3600)..(now \div 3600)} :
                      /\ since < m /\ m <= now
                      /\ LocalDay(m) = D /\ LocalDay(m - 1) = D - 1}
    IN MaxOf({PresentAt(m - 1, now) : m \in begins})

\* The local days whose events leave a positive count.
SampledDays(steps, now) == {D \in WindowDays(now) : MaxOf(CountsOn(steps, D)) > 0}

\* The recorded peaks are the largest counts left by each day's events.
RecordedAsSampled(steps, now) ==
    /\ DOMAIN res.val[2] = {CivilFromDays(D) : D \in SampledDays(steps, now)}
    /\ \A D \in SampledDays(steps, now) :
          res.val[2][CivilFromDays(D)] = MaxOf(CountsOn(steps, D))

\* C14 (amended): sampled at the day's events; at most the occupancy of the
\* day or of the second before it begins.
C14_DayPeakSampled ==
    res.fn = "peak" =>
        LET steps == PeakRun(rows, since, tzName, afk, res.now).steps
        IN /\ RecordedAsSampled(steps, res.now)
           /\ \A D \in SampledDays(steps, res.now) :
                 res.val[2][CivilFromDays(D)]
                     <= Max2(DayOccupancy(D, res.now), EveOccupancy(D, res.now))

\* C14 as the claim words it: a recorded day peak never exceeds the largest
\* simultaneous occupancy of that day.
C14_AsWritten ==
    res.fn = "peak" =>
        LET steps == PeakRun(rows, since, tzName, afk, res.now).steps
        IN /\ RecordedAsSampled(steps, res.now)
           /\ \A D \in SampledDays(steps, res.now) :
                 res.val[2][CivilFromDays(D)] <= DayOccupancy(D, res.now)

\* One local day is recorded below its occupancy (two present as it begins,
\* its only event a leave), and another, spanned by a session from end to
\* end, has no entry at all.
C14_Witness ==
    /\ res.fn = "peak"
    /\ \E D \in WindowDays(res.now) :
          /\ CivilFromDays(D) \in DOMAIN res.val[2]
          /\ res.val[2][CivilFromDays(D)] < DayOccupancy(D, res.now)
    /\ \E D \in WindowDays(res.now) :
          /\ CivilFromDays(D) \notin DOMAIN res.val[2]
          /\ DayOccupancy(D, res.now) > 0
          /\ \E i \in 1..Len(rows) :
                /\ Contributes(rows[i], res.now)
                /\ LocalDay(SpecStart(rows[i])) < D
                /\ D < LocalDay(SpecEnd(rows[i], res.now) - 1)

(***************************************************************************)
(* C15 (the splitting loop ends): for the hour and for the day loop, each  *)
(* iteration finds a boundary with cursor < boundary <= end, so the cursor *)
(* strictly increases; the loop is left with cursor = end after one        *)
(* iteration for each bucket boundary inside the interval plus one, also   *)
(* for an open session of many days.                                       *)
(***************************************************************************)
\* The bucket of the instant t: its local hour or its local day.  Offsets
\* are whole hours, so the bucket changes at whole hours of the epoch only.
BucketOf(gran, t) == IF gran = "hour" THEN LocalHour(t) ELSE LocalDay(t)

\* The bucket boundaries strictly inside [s, e).
BoundariesIn(gran, s, e) ==
    {m \in {h * 3600 : h \in (s \div 3600)..(e \div 3600)} :
        s < m /\ m < e /\ BucketOf(gran, m - 1) # BucketOf(gran, m)}

InWhile == loop # NoLoop /\ loop.pc = "while"

\* The body is about to run / the test has failed and the loop is left.
BodyNext == InWhile /\ loop.cur < loop.end
WhileOver == InWhile /\ ~(loop.cur < loop.end)

\* C15: every iteration moves the cursor up and not past end (the clock may
\* move meanwhile: the loop does not read it); the loop is left at end after
\* boundaries + 1 iterations; every loop entered is left.
C15_LoopEnds ==
    /\ [][BodyNext => /\ loop.cur < loop'.cur
                      /\ loop'.cur <= loop.end
                      /\ loop'.iters = loop.iters + 1]_loop
    /\ [](WhileOver =>
            /\ loop.cur = loop.end
            /\ loop.iters = Cardinality(BoundariesIn(loop.gran, loop.start, loop.end)) + 1)
    /\ [](InWhile => <>WhileOver)

\* The hour loop is left after a session still open over the whole window of
\* more than two years, the 23-hour and the 25-hour day among them: an
\* iteration for every hour but the one the clocks go through twice.
C15_Witness ==
    /\ WhileOver
    /\ loop.gran = "hour"
    /\ rows[loop.i][4] = NULL
    /\ loop.start = since /\ loop.end = loop.now
    /\ loop.end - loop.start = LongDays * DaySecs
    /\ loop.start < StockholmDstStart /\ StockholmDstEnd < loop.end
    /\ loop.iters = LongDays * 24

(***************************************************************************)
(* C16 (one open session): after any sequence of join, leave and switch    *)
(* updates handled one at a time, starting from a table the handler        *)
(* itself produced, each user has at most one stored session whose left_ts *)
(* is null.                                                                *)
(***************************************************************************)
OpenSessions(u) == {i \in 1..Len(rows) : rows[i][1] = u /\ rows[i][4] = NULL}

\* C16: once every handler is through, no user has two open sessions.
C16_OneOpenSession ==
    AllDone => \A u \in Users : Cardinality(OpenSessions(u)) <= 1

(***************************************************************************)
(* C17 (left_ts after joined_ts): every stored session has left_ts null or *)
(* left_ts >= joined_ts, however the concurrently running handlers'        *)
(* writes fall.                                                            *)
(***************************************************************************)
\* C17: every stored session has left_ts null or left_ts >= joined_ts.
C17_LeftAfterJoined ==
    \A i \in 1..Len(rows) : rows[i][4] = NULL \/ rows[i][4] >= rows[i][3]

(***************************************************************************)
(* C18 (a finished visit leaves nothing open): when the updates of a user  *)
(* are a join, any number of switches and a leave, and the table held no   *)
(* session of that user before, then once every handler is through the     *)
(* user has no session whose left_ts is null, in whatever order the        *)
(* handlers wrote.                                                         *)
(***************************************************************************)
\* The positions in tasks of the updates of user u, in the order delivered.
UpdatesOf(u) == {k \in 1..Len(tasks) : tasks[k].uid = u}

\* u's updates are a join, then switches only, then a leave.
ConsistentVisit(u) ==
    LET ks == UpdatesOf(u)
    IN /\ Cardinality(ks) >= 2
       /\ \A k \in ks :
             LET branch == BranchOf(tasks[k].before, tasks[k].after)
             IN IF \A j \in ks : k <= j THEN branch = "join"
                ELSE IF \A j \in ks : j <= k THEN branch = "leave"
                ELSE branch = "switch"

\* The table held no session of u when the first update came: u's sessions
\* were all joined at a reading of the clock of this run.
NothingStoredBefore(u) ==
    \A i \in 1..Len(rows) : rows[i][1] = u => rows[i][3] >= nowArg

\* C18: after a finished visit, handled to the end, the user has no open session.
C18_VisitClosed ==
    \A u \in Users :
        (AllDone /\ ConsistentVisit(u) /\ NothingStoredBefore(u)) => OpenSessions(u) = {}

====
